---- MODULE Spec2Model ----
(***************************************************************************)
(* A model of aiosmtpd/handlers.py: the Debugging, Proxy (relay), Message  *)
(* and Mailbox handlers, each invoked with (session, envelope) when a mail *)
(* transaction reaches end-of-data.                                        *)
(*                                                                         *)
(* Text is a sequence of one-character strings; the string "a" stands for  *)
(* any character that is no line boundary.  A multi-character string such  *)
(* as "X-Peer: 127.0.0.1" stands for a run of such characters.             *)
(***************************************************************************)
EXTENDS Integers, Sequences, FiniteSets, TLC

VARIABLES
    session,    \* the Session handed to handle_DATA: [peer |-> <<host, port>>]
    envelope,   \* the Envelope handed to handle_DATA
    pc,         \* position of the handler invocation
    raised,     \* the exception that left handle_DATA, NoExc when none
    lines,      \* Proxy.handle_DATA: the local list `lines`
    data,       \* Proxy.handle_DATA: the local `data` passed to _deliver
    refused,    \* Proxy._deliver: the local dict `refused`
    exc,        \* Proxy._deliver: the exception in flight, NoExc when none
    conn,       \* the upstream connection: "none", "open" or "closed"
    upstream,   \* history: the calls made on the smtplib.SMTP object, in order
    outcomes,   \* history: what connect, sendmail and quit each reported
    logged,     \* what handle_DATA passed to log.info: <<refused>>, <<>> before
    stream,     \* Debugging: the lines printed to self.stream, in order
    tasks,      \* Message/Mailbox: per connection task, its handle_DATA invocation,
                \* with the outcomes of its calls of self.mailbox.add in `adds`
    mailbox,    \* Mailbox: the messages of self.mailbox, by key
    nextKey,    \* Mailbox: the count from which the store makes the next key
    appended,   \* history: for each key ever assigned, the invocation that added it
    preReset,   \* history: the keys assigned before the latest reset
    sinceReset, \* history: appends completed since the latest reset, -1 before one
    begun,      \* history: the number of handle_DATA invocations begun
    completed   \* history: the number of Mailbox handle_DATA invocations that returned

invocationVars == <<session, envelope, pc, raised>>
proxyVars == <<lines, data, refused, exc, conn, upstream, outcomes, logged>>
mailboxVars ==
    <<tasks, mailbox, nextKey, appended, preReset, sinceReset, begun, completed>>
vars == <<invocationVars, proxyVars, stream, mailboxVars>>

---------------------------------------------------------------------------
(* Bounds of the model *)

\* longest envelope content, in characters
MaxLen == 3
\* most recipients in one envelope
MaxRcpts == 3

---------------------------------------------------------------------------
(* Module constants of handlers.py *)

EMPTYSTRING == <<>>
COMMASPACE == ", "
CRLF == <<"\r", "\n">>

\* getattr(e, 'smtp_code', -1) and getattr(e, 'smtp_error', 'ignore')
DefaultErrCode == -1
DefaultErrMsg == "ignore"

---------------------------------------------------------------------------
(* Text and the built-ins the handlers call *)

Range(s) == {s[k] : k \in 1..Len(s)}

\* every sequence over S of length at most n
SeqsUpTo(S, n) == UNION {[1..k -> S] : k \in 0..n}

\* the characters of the model: text, CR, LF and FF (a boundary for
\* str.splitlines, ordinary data for bytes.splitlines and for NLCRE)
Chars == {"a", "\r", "\n", "\f"}

\* whether splitlines ends a line at character c of a str / of a bytes value
IsBoundary(c, type) == c \in {"\r", "\n"} \/ (type = "str" /\ c = "\f")

\* content.splitlines(keepends=True), from 1-based position i with the line
\* `cur` collected so far
RECURSIVE SplitFrom(_, _, _, _)
SplitFrom(s, type, i, cur) ==
    IF i > Len(s)
    THEN IF cur = <<>> THEN <<>> ELSE <<cur>>
    ELSE IF s[i] = "\r" /\ i < Len(s) /\ s[i + 1] = "\n"
    THEN <<cur \o CRLF>> \o SplitFrom(s, type, i + 2, <<>>)
    ELSE IF IsBoundary(s[i], type)
    THEN <<Append(cur, s[i])>> \o SplitFrom(s, type, i + 1, <<>>)
    ELSE SplitFrom(s, type, i + 1, Append(cur, s[i]))

SplitLinesKeepEnds(content) == SplitFrom(content.chars, content.type, 1, <<>>)

\* EMPTYSTRING.join(lines)
RECURSIVE Join(_)
Join(ls) == IF ls = <<>> THEN EMPTYSTRING ELSE Head(ls) \o Join(Tail(ls))

\* NLCRE.match(line), NLCRE = re.compile(r'\r\n|\r|\n'): the pattern is
\* tried at the start of the line only
NLCREMatch(line) == line # <<>> /\ line[1] \in {"\r", "\n"}

\* list.insert(i, x), i counted from 0
ListInsert(ls, i, x) == SubSeq(ls, 1, i) \o <<x>> \o SubSeq(ls, i + 1, Len(ls))

---------------------------------------------------------------------------
(* Exceptions and what the smtplib.SMTP calls report *)

Exc(cls, code, msg, rcpts) ==
    [cls |-> cls, smtp_code |-> code, smtp_error |-> msg, recipients |-> rcpts]

EmptyMap == [r \in {} |-> <<0, "">>]

NoExc == Exc("none", 0, "", EmptyMap)
NotCalled == Exc("notcalled", 0, "", EmptyMap)
Ok == Exc("ok", 0, "", EmptyMap)
Returned(R) == Exc("returned", 0, "", R)

TypeError == Exc("TypeError", 0, "", EmptyMap)
\* a network error: no smtp_code attribute
OSErrorExc == Exc("OSError", 0, "", EmptyMap)
\* smtplib.SMTPServerDisconnected: no smtp_code attribute
SMTPServerDisconnected == Exc("SMTPServerDisconnected", 0, "", EmptyMap)
\* smtplib.SMTPResponseException (SMTPConnectError, SMTPHeloError,
\* SMTPSenderRefused, SMTPDataError): carries smtp_code and smtp_error
SMTPResponseException == Exc("SMTPResponseException", 421, "busy", EmptyMap)
\* smtplib.SMTPRecipientsRefused: every recipient was refused
SMTPRecipientsRefused(R) == Exc("SMTPRecipientsRefused", 0, "", R)

HasSmtpCode(e) == e.cls = "SMTPResponseException"
IsSMTPException(e) ==
    e.cls \in {"SMTPServerDisconnected", "SMTPResponseException",
               "SMTPRecipientsRefused"}
IsOSError(e) == e.cls = "OSError" \/ IsSMTPException(e)
IsException(e) == e.cls \notin {"none", "notcalled", "ok", "returned"}

\* the per-recipient reply of a refused recipient
RcptRefusal == <<550, "no such user">>

---------------------------------------------------------------------------
(* The inputs: sessions and envelopes *)

Address(a) == [address |-> a, options |-> <<>>]
AddressWithOptions(a, opts) == [address |-> a, options |-> opts]

Peers == {<<"127.0.0.1", 2500>>, <<"10.0.0.7", 25>>}

SenderAddr == "a@x.com"
RcptAddrs == <<"b@x.com", "c@x.com", "d@x.com", "e@x.com", "f@x.com">>

\* the recipient lists: non-empty, as the protocol layer guarantees at
\* end-of-data; one of them names a recipient twice
RcptLists ==
    {[k \in 1..n |-> Address(RcptAddrs[k])] : n \in 1..MaxRcpts}
        \cup {<<Address(RcptAddrs[1]), Address(RcptAddrs[1])>>}

\* the content of the scenario "Subject: hi CRLF CRLF body CRLF"
ScenarioChars == <<"Subject: hi", "\r", "\n", "\r", "\n", "body", "\r", "\n">>

Contents ==
    {[type |-> t, chars |-> c] : t \in {"str", "bytes"}, c \in SeqsUpTo(Chars, MaxLen)}
        \cup {[type |-> "str", chars |-> ScenarioChars]}

RcptAddresses(env) == [k \in 1..Len(env.rcpt_tos) |-> env.rcpt_tos[k].address]

---------------------------------------------------------------------------
(* Proxy.handle_DATA: the header insertion *)

\* a faulty variant of ScanLines: i is advanced before the loop is left, so the line
\* goes in after the blank line
RECURSIVE ScanLinesPastBlank(_, _)
ScanLinesPastBlank(ls, i) ==
    IF i >= Len(ls)
    THEN [i |-> i, ending |-> CRLF]
    ELSE IF NLCREMatch(ls[i + 1])
    THEN [i |-> i + 1, ending |-> ls[i + 1]]
    ELSE ScanLinesPastBlank(ls, i + 1)

\* a faulty variant of ScanLines: `ending` is never taken from the content
RECURSIVE ScanLinesDefaultEnding(_, _)
ScanLinesDefaultEnding(ls, i) ==
    IF i >= Len(ls)
    THEN [i |-> i, ending |-> CRLF]
    ELSE IF NLCREMatch(ls[i + 1])
    THEN [i |-> i, ending |-> CRLF]
    ELSE ScanLinesDefaultEnding(ls, i + 1)

\* the loop "for line in lines": the index i it stops at (counted from 0)
\* and the value of `ending` then; called with i = 0
RECURSIVE ScanLines(_, _)
ScanLines(ls, i) ==
    IF i >= Len(ls)
    THEN [i |-> i, ending |-> CRLF]
    ELSE IF NLCREMatch(ls[i + 1])
    THEN [i |-> i, ending |-> ls[i + 1]]
    ELSE ScanLines(ls, i + 1)

\* 'X-Peer: %s%s' % (session.peer[0], ending)
XPeerLine(peer, ending) == <<"X-Peer: " \o peer[1]>> \o ending

\* lines after lines.insert(i, 'X-Peer: ...')
InsertXPeer(ls, peer) ==
    LET scan == ScanLines(ls, 0)
    IN  ListInsert(ls, scan.i, XPeerLine(peer, scan.ending))

\* NLCRE is a str pattern: matching it against a bytes line raises
\* TypeError, which happens at the first iteration of the loop
ScanRaises(content) ==
    content.type = "bytes" /\ SplitLinesKeepEnds(content) # <<>>

ProxyInsertHeader ==
    /\ pc = "handle_DATA"
    /\ IF ScanRaises(envelope.content)
       THEN /\ pc' = "raised"
            /\ raised' = TypeError
            /\ lines' = SplitLinesKeepEnds(envelope.content)
            /\ UNCHANGED data
       ELSE /\ pc' = "deliver"
            /\ lines' = InsertXPeer(SplitLinesKeepEnds(envelope.content), session.peer)
            /\ data' = Join(lines')
            /\ UNCHANGED raised
    /\ UNCHANGED <<session, envelope, refused, exc, conn, upstream, outcomes, logged>>
    /\ UNCHANGED <<stream, mailboxVars>>

---------------------------------------------------------------------------
(* Proxy._deliver *)

Call(op, a, b, c) == [op |-> op, mail_from |-> a, rcpt_tos |-> b, data |-> c]

ConnectOutcomes == {Ok, OSErrorExc, SMTPResponseException}

\* sendmail returns the refusals of a strict subset of the recipients, and
\* raises SMTPRecipientsRefused when every recipient was refused
SendmailOutcomes(rcpts) ==
    {Returned([r \in T |-> RcptRefusal]) : T \in (SUBSET Range(rcpts)) \ {Range(rcpts)}}
        \cup {SMTPRecipientsRefused([r \in Range(rcpts) |-> RcptRefusal]),
              SMTPResponseException, SMTPServerDisconnected}

QuitOutcomes == {Ok, SMTPServerDisconnected}

\* refused = {}; s = smtplib.SMTP(); s.connect(self._hostname, self._port)
ProxyConnect ==
    /\ pc = "deliver"
    /\ \E o \in ConnectOutcomes :
        /\ outcomes' = [outcomes EXCEPT !.connect = o]
        /\ IF o = Ok
           THEN pc' = "sendmail" /\ conn' = "open" /\ exc' = NoExc
           ELSE pc' = "except" /\ conn' = conn /\ exc' = o
    /\ refused' = EmptyMap
    /\ upstream' = Append(upstream, Call("connect", "", <<>>, <<>>))
    /\ UNCHANGED <<session, envelope, raised, lines, data, logged>>
    /\ UNCHANGED <<stream, mailboxVars>>

\* a faulty variant of DeliveredData: the content of the envelope is handed
\* to _deliver as it arrived
DeliveredOriginal == envelope.content.chars

\* the third argument of self._deliver(mail_from, rcpt_tos, data): the join
\* of the lines after the insertion
DeliveredData == data

\* a faulty variant of AfterSendmail: s.quit() follows sendmail without a
\* finally clause, so that an exception of sendmail skips it
AfterSendmailNoFinally(o) == IF o.cls = "returned" THEN "quit" ELSE "except"

\* try: ... finally: s.quit() runs next however sendmail ended
AfterSendmail(o) == "quit"

\* refused = s.sendmail(mail_from, rcpt_tos, data)
ProxySendmail ==
    /\ pc = "sendmail"
    /\ LET rcpts == RcptAddresses(envelope)
       IN  /\ \E o \in SendmailOutcomes(rcpts) :
                /\ outcomes' = [outcomes EXCEPT !.sendmail = o]
                /\ IF o.cls = "returned"
                   THEN refused' = o.recipients /\ exc' = NoExc
                   ELSE refused' = refused /\ exc' = o
                /\ pc' = AfterSendmail(o)
           /\ upstream' = Append(upstream,
                    Call("sendmail", envelope.mail_from.address, rcpts, DeliveredData))
    /\ UNCHANGED <<session, envelope, raised, lines, data, conn, logged>>
    /\ UNCHANGED <<stream, mailboxVars>>

\* finally: s.quit().  An exception of quit replaces the one in flight.
ProxyQuit ==
    /\ pc = "quit"
    /\ \E o \in QuitOutcomes :
        /\ outcomes' = [outcomes EXCEPT !.quit = o]
        /\ exc' = IF o = Ok THEN exc ELSE o
    /\ conn' = "closed"
    /\ upstream' = Append(upstream, Call("quit", "", <<>>, <<>>))
    /\ pc' = IF exc' = NoExc THEN "return" ELSE "except"
    /\ UNCHANGED <<session, envelope, raised, lines, data, refused, logged>>
    /\ UNCHANGED <<stream, mailboxVars>>

\* errcode = getattr(e, 'smtp_code', -1)
ErrCode(e) == IF HasSmtpCode(e) THEN e.smtp_code ELSE DefaultErrCode
\* errmsg = getattr(e, 'smtp_error', 'ignore')
ErrMsg(e) == IF HasSmtpCode(e) THEN e.smtp_error ELSE DefaultErrMsg

\* a faulty variant of RefuseAll: the loop runs over the keys of `refused`, not over
\* rcpt_tos
RefuseAlreadyRefused(map, rcpts, e) ==
    [r \in DOMAIN map |-> <<ErrCode(e), ErrMsg(e)>>]

\* for r in rcpt_tos: refused[r] = (errcode, errmsg)
RefuseAll(map, rcpts, e) ==
    [r \in (DOMAIN map) \cup Range(rcpts) |->
        IF r \in Range(rcpts) THEN <<ErrCode(e), ErrMsg(e)>> ELSE map[r]]

\* a faulty variant of Catches: the second clause names smtplib.SMTPException alone
CatchesSMTPOnly(e) == IsSMTPException(e)

\* whether one of the two except clauses of _deliver takes exception e
Catches(e) == e.cls = "SMTPRecipientsRefused" \/ IsOSError(e)

\* the value of `refused` after the except clause that takes e
Handled(map, rcpts, e) ==
    IF e.cls = "SMTPRecipientsRefused"
    THEN e.recipients
    ELSE RefuseAll(map, rcpts, e)

ProxyExcept ==
    /\ pc = "except"
    /\ IF Catches(exc)
       THEN /\ refused' = Handled(refused, RcptAddresses(envelope), exc)
            /\ pc' = "return"
            /\ UNCHANGED raised
       ELSE /\ raised' = exc
            /\ pc' = "raised"
            /\ UNCHANGED refused
    /\ exc' = NoExc
    /\ UNCHANGED <<session, envelope, lines, data, conn, upstream, outcomes, logged>>
    /\ UNCHANGED <<stream, mailboxVars>>

\* return refused; log.info('we got some refusals: %s', refused)
ProxyReturn ==
    /\ pc = "return"
    /\ logged' = <<refused>>
    /\ pc' = "done"
    /\ UNCHANGED <<session, envelope, raised, lines, data, refused, exc, conn,
                   upstream, outcomes>>
    /\ UNCHANGED <<stream, mailboxVars>>

\* the values of the variables of a handler that takes no part
ProxyUnused ==
    /\ lines = <<>>
    /\ data = <<>>
    /\ refused = EmptyMap
    /\ exc = NoExc
    /\ conn = "none"
    /\ upstream = <<>>
    /\ outcomes = [connect |-> NotCalled, sendmail |-> NotCalled, quit |-> NotCalled]
    /\ logged = <<>>

MailboxUnused ==
    /\ tasks = <<>>
    /\ mailbox = <<>>
    /\ nextKey = 0
    /\ appended = <<>>
    /\ preReset = {}
    /\ sinceReset = -1
    /\ begun = 0
    /\ completed = 0

InitProxy ==
    /\ session \in {[peer |-> p] : p \in Peers}
    /\ envelope \in {[mail_from |-> Address(SenderAddr), rcpt_tos |-> r, content |-> c] :
                        r \in RcptLists, c \in Contents}
    /\ pc = "handle_DATA"
    /\ raised = NoExc
    /\ lines = <<>>
    /\ data = <<>>
    /\ refused = EmptyMap
    /\ exc = NoExc
    /\ conn = "none"
    /\ upstream = <<>>
    /\ outcomes = [connect |-> NotCalled, sendmail |-> NotCalled, quit |-> NotCalled]
    /\ logged = <<>>
    /\ stream = <<>>
    /\ MailboxUnused

NextProxy ==
    \/ ProxyInsertHeader
    \/ ProxyConnect
    \/ ProxySendmail
    \/ ProxyQuit
    \/ ProxyExcept
    \/ ProxyReturn

SpecProxy == InitProxy /\ [][NextProxy]_vars

---------------------------------------------------------------------------
(* Properties of the header insertion of Proxy.handle_DATA *)

\* the header insertion completed and _deliver was called with `data`
InsertionDone == pc \in {"deliver", "sendmail", "quit", "except", "return", "done"}

\* the lines of the original content
OriginalLines == SplitLinesKeepEnds(envelope.content)

\* the recognized line terminators
Terminators == {<<"\r", "\n">>, <<"\r">>, <<"\n">>}

\* a line consisting solely of a line terminator
IsBlankLine(line) == line \in Terminators

\* the 1-based index of the first blank line of ls, Len(ls) + 1 without one
FirstBlank(ls) ==
    LET blank == {j \in 1..Len(ls) : IsBlankLine(ls[j])}
    IN  IF blank = {} THEN Len(ls) + 1
        ELSE CHOOSE j \in blank : \A m \in blank : j <= m

HasBlankLine(ls) == FirstBlank(ls) <= Len(ls)

XPeerText == "X-Peer: " \o session.peer[1]

\* ls with the line X-Peer: <peer host><term> put in before its first blank
\* line, after its last line when it has none
WithXPeerBeforeBlank(ls, term) ==
    LET k == FirstBlank(ls)
    IN  SubSeq(ls, 1, k - 1) \o << <<XPeerText>> \o term >> \o SubSeq(ls, k, Len(ls))

ScenarioData ==
    <<"Subject: hi", "\r", "\n", "X-Peer: 127.0.0.1", "\r", "\n", "\r", "\n",
      "body", "\r", "\n">>

DataLines == SplitFrom(data, "str", 1, <<>>)

\* C2: the lines of the data handed to delivery are exactly the lines of
\* the original content, unchanged and in order, plus the one inserted
\* X-Peer line, also when the last line of the content has no terminator
\* and when the content has no blank line.
C2_LinesPreserved ==
    InsertionDone =>
        \E term \in Terminators :
            DataLines = WithXPeerBeforeBlank(OriginalLines, term)

\* the terminator of the inserted X-Peer line
InsertedTerminator ==
    LET at == {j \in 1..Len(lines) : lines[j] # <<>> /\ lines[j][1] = XPeerText}
    IN  Tail(lines[CHOOSE j \in at : TRUE])

\* the recognized terminator a line ends with, <<>> when it ends with none
TerminatorOf(line) ==
    LET n == Len(line)
    IN  IF n >= 2 /\ line[n - 1] = "\r" /\ line[n] = "\n" THEN <<"\r", "\n">>
        ELSE IF n >= 1 /\ line[n] \in {"\r", "\n"} THEN <<line[n]>>
        ELSE <<>>

\* the indexes of the lines of ls that end with a recognized terminator
TerminatedLines(ls) == {j \in 1..Len(ls) : TerminatorOf(ls[j]) # <<>>}

FirstTerminated(ls) ==
    CHOOSE j \in TerminatedLines(ls) : \A m \in TerminatedLines(ls) : j <= m

\* C3 as stated: the terminator of the inserted X-Peer line is the
\* terminator of the first terminated line of the content, and CRLF only
\* when the content has no terminated line before the insertion point.
C3_TerminatorOfFirstTerminatedLine ==
    InsertionDone =>
        IF TerminatedLines(OriginalLines) # {}
        THEN InsertedTerminator
                = TerminatorOf(OriginalLines[FirstTerminated(OriginalLines)])
        ELSE InsertedTerminator = CRLF

\* C3 amended: the terminator of the inserted X-Peer line is the first
\* blank line of the content (CRLF, CR or LF: the line it is inserted
\* before), whatever terminators the lines before it have, and it is CRLF
\* whenever the content has no blank line.
C3_TerminatorOfFirstBlankLine ==
    InsertionDone =>
        IF HasBlankLine(OriginalLines)
        THEN InsertedTerminator = OriginalLines[FirstBlank(OriginalLines)]
        ELSE InsertedTerminator = CRLF

\* a content that mixes styles: its first terminated line does not end the
\* way its first blank line does
C3_Witness ==
    /\ pc = "done"
    /\ HasBlankLine(OriginalLines)
    /\ FirstTerminated(OriginalLines) < FirstBlank(OriginalLines)
    /\ TerminatorOf(OriginalLines[FirstTerminated(OriginalLines)]) # InsertedTerminator
    /\ InsertedTerminator # CRLF

---------------------------------------------------------------------------
(* Properties of Proxy._deliver *)

RequestedRcpts == Range(RcptAddresses(envelope))

\* handle_DATA is over: it returned or it raised
Finished == pc \in {"done", "raised"}

\* sendmail reported the refusal of a non-empty strict subset of the recipients
PartialRefusal ==
    /\ outcomes.sendmail.cls = "returned"
    /\ outcomes.sendmail.recipients # EmptyMap

\* C4: if the send call reports a partial refusal R, the refusal map that
\* handle_DATA obtains from _deliver has exactly the entries of R, and
\* handle_DATA does not raise.
C4_PartialRefusalKept ==
    (Finished /\ PartialRefusal) =>
        /\ pc = "done"
        /\ logged = <<outcomes.sendmail.recipients>>

\* the failure that ends the try statement of _deliver: an exception of quit
\* replaces one of sendmail
Failure ==
    IF IsException(outcomes.quit) THEN outcomes.quit
    ELSE IF IsException(outcomes.sendmail) THEN outcomes.sendmail
    ELSE outcomes.connect

\* the connection or the exchange failed, and not by a per-recipient refusal
GeneralFailure == IsException(Failure) /\ Failure.cls # "SMTPRecipientsRefused"

\* C5: after a general failure the refusal map returned by _deliver has
\* exactly one entry per requested recipient, each the (code, message) of
\* the failure when it exposes one, otherwise -1 and a placeholder message.
C5_GeneralFailureRefusesAll ==
    (pc \in {"return", "done"} /\ GeneralFailure) =>
        /\ DOMAIN refused = RequestedRcpts
        /\ \A r \in RequestedRcpts :
            refused[r] = IF Failure.cls = "SMTPResponseException"
                         THEN <<Failure.smtp_code, Failure.smtp_error>>
                         ELSE <<-1, "ignore">>

\* the connection was refused, for an envelope with several recipients
C5_Witness ==
    /\ pc = "done"
    /\ outcomes.connect = OSErrorExc
    /\ Cardinality(RequestedRcpts) >= 2
    /\ logged = <<[r \in RequestedRcpts |-> <<-1, "ignore">>]>>

\* C6: no OSError and no SMTPException raised by connect, sendmail or quit
\* leaves _deliver: whenever one of them raised, _deliver returns a refusal
\* map, and what handle_DATA raises is never such an exception.
C6_DeliveryErrorsCaught ==
    /\ pc = "raised" => raised.cls \notin
            {"OSError", "SMTPServerDisconnected", "SMTPResponseException",
             "SMTPRecipientsRefused"}
    /\ (IsException(Failure) /\ pc \notin {"quit", "except"})
            => (pc \in {"return", "done"} /\ DOMAIN refused \subseteq RequestedRcpts)

\* every recipient was refused and closing the connection failed as well
C6_Witness ==
    /\ pc = "done"
    /\ outcomes.sendmail.cls = "SMTPRecipientsRefused"
    /\ outcomes.quit = SMTPServerDisconnected
    /\ raised = NoExc

\* C7: for content in either representation and every upstream outcome,
\* Proxy.handle_DATA completes the header insertion, makes the delivery
\* attempt and returns normally: it never raises.
C7_RelayNeverRaises ==
    /\ pc # "raised"
    /\ pc = "done" => (upstream # <<>> /\ logged # <<>>)

---------------------------------------------------------------------------
(* Message.prepare_message *)

\* Content handed to the Message handlers is a sequence of lines, each a
\* header line "name: value", a blank line, or a line of text that is no
\* header.
HeaderLine(n, v) == [kind |-> "header", name |-> n, value |-> v]
BlankLine == [kind |-> "blank", name |-> "", value |-> ""]
TextLine == [kind |-> "text", name |-> "", value |-> "body"]

\* longest content of the Message handlers, in lines
MaxMsgLines == 3

ProvenanceNames == {"X-Peer", "X-MailFrom", "X-RcptTo"}

MsgLines ==
    {HeaderLine(n, "forged") : n \in ProvenanceNames \cup {"Subject"}}
        \cup {BlankLine, TextLine}

\* content in the two accepted representations, and one that is neither
MsgContents ==
    {[type |-> t, chars |-> c] : t \in {"str", "bytes"}, c \in SeqsUpTo(MsgLines, MaxMsgLines)}
        \cup {[type |-> "other", chars |-> <<>>]}

\* the number of leading header lines of ls
RECURSIVE HeaderCount(_)
HeaderCount(ls) ==
    IF ls = <<>> \/ Head(ls).kind # "header" THEN 0 ELSE 1 + HeaderCount(Tail(ls))

\* message_from_string / message_from_bytes: the header block ends at the
\* first line that is no header; a blank line there separates it from the
\* payload and is not part of it
ParseMessage(content) ==
    LET ls == content.chars
        n == HeaderCount(ls)
        rest == SubSeq(ls, n + 1, Len(ls))
    IN  [headers |-> [k \in 1..n |-> [name |-> ls[k].name, value |-> ls[k].value]],
         payload |-> IF rest # <<>> /\ Head(rest).kind = "blank" THEN Tail(rest) ELSE rest]

\* a faulty variant of SetItem: a header of that name already present is
\* replaced, as replace_header does
SetItemReplacing(msg, name, value) ==
    IF \E k \in 1..Len(msg.headers) : msg.headers[k].name = name
    THEN [msg EXCEPT !.headers =
            [k \in 1..Len(@) |-> IF @[k].name = name
                                 THEN [name |-> name, value |-> value] ELSE @[k]]]
    ELSE [msg EXCEPT !.headers = Append(@, [name |-> name, value |-> value])]

\* a faulty variant of SetItem: the header is put first
SetItemInFront(msg, name, value) ==
    [msg EXCEPT !.headers = <<[name |-> name, value |-> value]>> \o @]

\* message[name] = value: email.message.Message.__setitem__ appends the
\* header and keeps the headers of that name already present
SetItem(msg, name, value) ==
    [msg EXCEPT !.headers = Append(@, [name |-> name, value |-> value])]

\* message.get_all(name): the values of the headers of that name, in order
GetAll(msg, name) ==
    LET hs == SelectSeq(msg.headers, LAMBDA h : h.name = name)
    IN  [k \in 1..Len(hs) |-> hs[k].value]

None == "None"

\* message[name]: the value of the first header of that name, None without one
GetItem(msg, name) ==
    IF GetAll(msg, name) = <<>> THEN None ELSE Head(GetAll(msg, name))

\* str(session.peer), e.g. "('127.0.0.1', 2500)"
StrPeer(peer) == "('" \o peer[1] \o "', " \o ToString(peer[2]) \o ")"

\* COMMASPACE.join(addresses)
RECURSIVE JoinCommaSpace(_)
JoinCommaSpace(as) ==
    IF as = <<>> THEN ""
    ELSE IF Len(as) = 1 THEN as[1]
    ELSE as[1] \o COMMASPACE \o JoinCommaSpace(Tail(as))

\* envelope.rcpttos, as prepare_message spells the recipient list that the
\* other handlers read as envelope.rcpt_tos; the Envelope class is not part
\* of handlers.py, and is taken to give the same list under this name
Rcpttos(env) == env.rcpt_tos

\* a faulty variant of PrepareRaises: the type of the content is not
\* checked, and content of another type is parsed as if it were text
PrepareNeverRaises(env) == FALSE

\* the isinstance tests: content that is neither bytes nor str fails the
\* assert
PrepareRaises(env) == env.content.type \notin {"bytes", "str"}

AssertionError == Exc("AssertionError", 0, "", EmptyMap)
NotImplementedError == Exc("NotImplementedError", 0, "", EmptyMap)

\* the message prepare_message returns
PrepareMessage(ses, env) ==
    LET parsed == ParseMessage(env.content)
        m1 == SetItem(parsed, "X-Peer", StrPeer(ses.peer))
        m2 == SetItem(m1, "X-MailFrom", env.mail_from.address)
    IN  SetItem(m2, "X-RcptTo",
            JoinCommaSpace([k \in 1..Len(Rcpttos(env)) |-> Rcpttos(env)[k].address]))

---------------------------------------------------------------------------
(* Message.handle_DATA, Mailbox.handle_message and Mailbox.reset *)

\* the connection tasks that share one handler instance
Tasks == {"t1", "t2"}

\* most handle_DATA invocations in one behaviour
MaxInvocations == 3

NoMessage == [headers |-> <<>>, payload |-> <<>>]
NoSession == [peer |-> <<"", 0>>]
NoEnvelope ==
    [mail_from |-> Address(""), rcpt_tos |-> <<>>,
     content |-> [type |-> "str", chars |-> <<>>]]

IdleTask ==
    [pc |-> "idle", session |-> NoSession, envelope |-> NoEnvelope,
     message |-> NoMessage, adds |-> <<>>, raised |-> NoExc]

EmptyStore == [k \in {} |-> NoMessage]

\* the key Maildir.add gives the message: made from a count that the store
\* never takes back, so no key is given twice
NewKey(count) == count

\* self.mailbox.add(message) either stores the message or raises OSError
AddOutcomes == {Ok, OSErrorExc}

\* the store after self.mailbox.add(message)
Added(store, key, message) ==
    [k \in (DOMAIN store) \cup {key} |-> IF k = key THEN message ELSE store[k]]

\* a faulty variant of Cleared: reset flushes the store and removes nothing
ClearedNothing(store) == store

\* the store after self.mailbox.clear()
Cleared(store) == EmptyStore

\* envelope = self.prepare_message(session, envelope)
MessagePrepare(t) ==
    /\ tasks[t].pc = "handle_DATA"
    /\ IF PrepareRaises(tasks[t].envelope)
       THEN tasks' = [tasks EXCEPT ![t].pc = "raised", ![t].raised = AssertionError]
       ELSE tasks' = [tasks EXCEPT
                ![t].pc = "handle_message",
                ![t].message = PrepareMessage(tasks[t].session, tasks[t].envelope)]
    /\ UNCHANGED <<mailbox, nextKey, appended, preReset, sinceReset, begun, completed>>
    /\ UNCHANGED <<invocationVars, proxyVars, stream>>

\* yield from self.handle_message(envelope), of the base class Message
MessageHandleMessage(t) ==
    /\ tasks[t].pc = "handle_message"
    /\ tasks' = [tasks EXCEPT ![t].pc = "raised", ![t].raised = NotImplementedError]
    /\ UNCHANGED <<mailbox, nextKey, appended, preReset, sinceReset, begun, completed>>
    /\ UNCHANGED <<invocationVars, proxyVars, stream>>

\* a faulty variant of MessageToStore: the prepared message is kept in an
\* attribute of the handler, which the tasks share, so that a task may pass
\* on the message another task prepared meanwhile
MessageToStoreShared(t) ==
    LET others == {u \in DOMAIN tasks \ {t} : tasks[u].pc = "handle_message"}
    IN  IF others = {} THEN tasks[t].message
        ELSE tasks[CHOOSE u \in others : TRUE].message

\* the argument of self.handle_message(envelope): the local name the
\* invocation bound to the result of its own prepare_message
MessageToStore(t) == tasks[t].message

\* a faulty variant of AfterAddFailure: the append is tried again when it
\* failed
AfterAddFailureRetry == "handle_message"

\* no statement of handle_message or handle_DATA catches the exception of
\* self.mailbox.add: it leaves the invocation
AfterAddFailure == "raised"

\* yield from self.handle_message(envelope), of Mailbox:
\* self.mailbox.add(message)
MailboxHandleMessage(t) ==
    /\ tasks[t].pc = "handle_message"
    /\ \E o \in AddOutcomes :
        IF o = Ok
        THEN /\ mailbox' = Added(mailbox, NewKey(nextKey), MessageToStore(t))
             /\ nextKey' = nextKey + 1
             /\ appended' = Added(appended, NewKey(nextKey),
                    [session |-> tasks[t].session, envelope |-> tasks[t].envelope,
                     task |-> t])
             /\ sinceReset' = IF sinceReset < 0 THEN sinceReset ELSE sinceReset + 1
             /\ completed' = completed + 1
             /\ tasks' = [tasks EXCEPT ![t].pc = "done", ![t].adds = Append(@, o)]
        ELSE /\ tasks' = [tasks EXCEPT ![t].pc = AfterAddFailure, ![t].raised = o,
                                       ![t].adds = Append(@, o)]
             /\ UNCHANGED <<mailbox, nextKey, appended, sinceReset, completed>>
    /\ UNCHANGED <<preReset, begun>>
    /\ UNCHANGED <<invocationVars, proxyVars, stream>>

\* Mailbox.reset
MailboxReset ==
    /\ mailbox' = Cleared(mailbox)
    /\ preReset' = DOMAIN appended
    /\ sinceReset' = 0
    /\ UNCHANGED <<tasks, nextKey, appended, begun, completed>>
    /\ UNCHANGED <<invocationVars, proxyVars, stream>>

\* the envelopes the tasks of one Mailbox handler receive
MailboxContents ==
    {[type |-> "str", chars |-> <<HeaderLine("Subject", "forged"), BlankLine, TextLine>>],
     [type |-> "bytes", chars |-> <<HeaderLine("X-Peer", "forged")>>],
     [type |-> "other", chars |-> <<>>]}

\* the protocol layer invokes handle_DATA for a task's next transaction,
\* once the invocation before it is over
MailboxBegin(t) ==
    /\ tasks[t].pc \in {"idle", "done", "raised"}
    /\ begun < MaxInvocations
    /\ begun' = begun + 1
    /\ \E p \in Peers, c \in MailboxContents :
        tasks' = [tasks EXCEPT ![t] =
            [pc |-> "handle_DATA",
             session |-> [peer |-> p],
             envelope |-> [mail_from |-> Address(SenderAddr),
                           rcpt_tos |-> <<Address(RcptAddrs[1])>>,
                           content |-> c],
             message |-> NoMessage,
             adds |-> <<>>,
             raised |-> NoExc]]
    /\ UNCHANGED <<mailbox, nextKey, appended, preReset, sinceReset, completed>>
    /\ UNCHANGED <<invocationVars, proxyVars, stream>>

InvocationUnused ==
    /\ session = NoSession
    /\ envelope = NoEnvelope
    /\ pc = "unused"
    /\ raised = NoExc

\* one invocation of handle_DATA of a Message handler that does not
\* override handle_message
InitMessage ==
    /\ InvocationUnused
    /\ ProxyUnused
    /\ stream = <<>>
    /\ \E p \in Peers, r \in RcptLists, c \in MsgContents :
        tasks = [t \in {"t1"} |->
            [pc |-> "handle_DATA",
             session |-> [peer |-> p],
             envelope |-> [mail_from |-> Address(SenderAddr), rcpt_tos |-> r,
                           content |-> c],
             message |-> NoMessage,
             adds |-> <<>>,
             raised |-> NoExc]]
    /\ mailbox = EmptyStore
    /\ nextKey = 0
    /\ appended = <<>>
    /\ preReset = {}
    /\ sinceReset = -1
    /\ begun = 1
    /\ completed = 0

NextMessage ==
    \/ MessagePrepare("t1")
    \/ MessageHandleMessage("t1")

SpecMessage == InitMessage /\ [][NextMessage]_vars

\* one Mailbox handler shared by the tasks
InitMailbox ==
    /\ InvocationUnused
    /\ ProxyUnused
    /\ stream = <<>>
    /\ tasks = [t \in Tasks |-> IdleTask]
    /\ mailbox = EmptyStore
    /\ nextKey = 0
    /\ appended = <<>>
    /\ preReset = {}
    /\ sinceReset = -1
    /\ begun = 0
    /\ completed = 0

NextMailbox ==
    \/ \E t \in Tasks : MailboxBegin(t)
    \/ \E t \in Tasks : MessagePrepare(t)
    \/ \E t \in Tasks : MailboxHandleMessage(t)
    \/ MailboxReset

SpecMailbox == InitMailbox /\ [][NextMailbox]_vars

---------------------------------------------------------------------------
(* One handler instance serving the transactions of a server *)

\* the contents a relay receives: the scenario, a line without terminator,
\* and bytes
RelayContents ==
    {[type |-> "str", chars |-> ScenarioChars],
     [type |-> "str", chars |-> <<"a">>],
     [type |-> "bytes", chars |-> <<"a", "\n">>]}

RelayRcptLists ==
    {<<Address(RcptAddrs[1])>>, <<Address(RcptAddrs[2]), Address(RcptAddrs[3])>>}

\* the protocol layer invokes handle_DATA of the Proxy for the next
\* transaction, once the invocation before it is over.  The locals of the
\* invocation are new, s is a new smtplib.SMTP object; the model keeps the
\* last values of refused and of the log until they are assigned again.
ProxyBegin ==
    /\ pc \in {"ready", "done", "raised"}
    /\ begun < MaxInvocations
    /\ begun' = begun + 1
    /\ session' \in {[peer |-> p] : p \in Peers}
    /\ envelope' \in {[mail_from |-> Address(SenderAddr), rcpt_tos |-> r, content |-> c] :
                        r \in RelayRcptLists, c \in RelayContents}
    /\ pc' = "handle_DATA"
    /\ raised' = NoExc
    /\ lines' = <<>>
    /\ data' = <<>>
    /\ exc' = NoExc
    /\ conn' = "none"
    /\ upstream' = <<>>
    /\ outcomes' = [connect |-> NotCalled, sendmail |-> NotCalled, quit |-> NotCalled]
    /\ UNCHANGED <<refused, logged, stream>>
    /\ UNCHANGED <<tasks, mailbox, nextKey, appended, preReset, sinceReset, completed>>

\* a Proxy handler that has served no transaction yet
InitRelay ==
    /\ session = NoSession
    /\ envelope = NoEnvelope
    /\ pc = "ready"
    /\ raised = NoExc
    /\ ProxyUnused
    /\ stream = <<>>
    /\ MailboxUnused

\* the handler of the server is a Proxy or a Mailbox
InitHandlers == InitRelay \/ InitMailbox

\* Mailbox.reset, called on the handler when it is a Mailbox
HandlerReset == tasks # <<>> /\ MailboxReset

NextHandlers ==
    \/ ProxyBegin
    \/ ProxyInsertHeader
    \/ ProxyConnect
    \/ ProxySendmail
    \/ ProxyQuit
    \/ ProxyExcept
    \/ ProxyReturn
    \/ \E t \in DOMAIN tasks : MailboxBegin(t)
    \/ \E t \in DOMAIN tasks : MessagePrepare(t)
    \/ \E t \in DOMAIN tasks : MailboxHandleMessage(t)
    \/ HandlerReset

SpecHandlers == InitHandlers /\ [][NextHandlers]_vars

---------------------------------------------------------------------------
(* Properties of Message.prepare_message and of the Mailbox store *)

\* prepare_message returned a message to the invocation of task t
Prepared(t) == t \in DOMAIN tasks /\ tasks[t].message # NoMessage

SenderOf(t) == tasks[t].envelope.mail_from.address

RcptsJoined(t) ==
    LET r == tasks[t].envelope.rcpt_tos
    IN  JoinCommaSpace([k \in 1..Len(r) |-> r[k].address])

Last(s) == s[Len(s)]

\* the names of the headers that the content itself carries
ContentHeaderNames(t) ==
    LET c == tasks[t].envelope.content.chars
    IN  {c[k].name : k \in 1..HeaderCount(c)}

\* C8 as stated: for every envelope with recipients and every content, also
\* one that already carries X-Peer, X-MailFrom or X-RcptTo headers, reading
\* these three headers back from the prepared message gives str(peer), the
\* sender address and the recipient addresses joined by ', '.
C8_RoundTripAnyContent ==
    \A t \in DOMAIN tasks : Prepared(t) =>
        /\ GetItem(tasks[t].message, "X-Peer") = StrPeer(tasks[t].session.peer)
        /\ GetItem(tasks[t].message, "X-MailFrom") = SenderOf(t)
        /\ GetItem(tasks[t].message, "X-RcptTo") = RcptsJoined(t)

\* C8 amended: the last header of each of the three names in the prepared
\* message is str(peer), the sender address, the recipients joined by
\* ', '; reading a name back gives that value for every content that
\* carries no header of that name (a content's own header is read first);
\* for peer ('127.0.0.1', 2500) and recipients b@x.com, c@x.com the values
\* are "('127.0.0.1', 2500)" and "b@x.com, c@x.com".
C8_RoundTripLastHeader ==
    \A t \in DOMAIN tasks : Prepared(t) =>
        LET m == tasks[t].message
            expected == [n \in ProvenanceNames |->
                CASE n = "X-Peer" -> StrPeer(tasks[t].session.peer)
                  [] n = "X-MailFrom" -> SenderOf(t)
                  [] n = "X-RcptTo" -> RcptsJoined(t)]
        IN  /\ \A n \in ProvenanceNames :
                /\ GetAll(m, n) # <<>>
                /\ Last(GetAll(m, n)) = expected[n]
                /\ n \notin ContentHeaderNames(t) => GetItem(m, n) = expected[n]
            /\ tasks[t].session.peer = <<"127.0.0.1", 2500>>
                    => Last(GetAll(m, "X-Peer")) = "('127.0.0.1', 2500)"
            /\ Len(tasks[t].envelope.rcpt_tos) = 2
                    => Last(GetAll(m, "X-RcptTo")) \in
                            {"b@x.com, c@x.com", "b@x.com, b@x.com"}

\* a content that carries its own X-Peer and X-RcptTo headers, from two
\* recipients
C8_Witness ==
    /\ Prepared("t1")
    /\ {"X-Peer", "X-RcptTo"} \subseteq ContentHeaderNames("t1")
    /\ GetItem(tasks["t1"].message, "X-Peer") = "forged"
    /\ Last(GetAll(tasks["t1"].message, "X-RcptTo")) = "b@x.com, c@x.com"
    /\ GetItem(tasks["t1"].message, "X-MailFrom") = "a@x.com"

\* C9: once reset was called, the store holds exactly the messages appended
\* since (none right after the reset, one after the first append that
\* follows it), and every key in the store differs from every key assigned
\* before the reset.
C9_ResetEmptiesStore ==
    sinceReset >= 0 =>
        /\ Cardinality(DOMAIN mailbox) = sinceReset
        /\ (DOMAIN mailbox) \cap preReset = {}

\* two distinct messages were appended, then reset was called, then one
\* more message was appended
C9_Witness ==
    /\ sinceReset = 1
    /\ Cardinality(DOMAIN mailbox) = 1
    /\ \E j, k \in preReset :
        j # k /\ PrepareMessage(appended[j].session, appended[j].envelope)
                    # PrepareMessage(appended[k].session, appended[k].envelope)

---------------------------------------------------------------------------
(* Debugging.handle_DATA *)

\* one line printed to self.stream; `kind` records the statement that
\* printed it
Printed(kind, text) == [kind |-> kind, text |-> text]

\* _format_peer(peer): 'X-Peer: {!r}'.format(peer)
FormatPeer(peer) == "X-Peer: " \o StrPeer(peer)

\* a line of splitlines(keepends=True) without its line boundary
StripBoundary(line, type) ==
    LET n == Len(line)
    IN  IF n >= 2 /\ line[n - 1] = "\r" /\ line[n] = "\n" THEN SubSeq(line, 1, n - 2)
        ELSE IF n >= 1 /\ IsBoundary(line[n], type) THEN SubSeq(line, 1, n - 1)
        ELSE line

\* data.splitlines()
SplitLines(content) ==
    LET ls == SplitLinesKeepEnds(content)
    IN  [k \in 1..Len(ls) |-> StripBoundary(ls[k], content.type)]

\* line.decode('utf-8', 'replace') of a bytes line: a byte that is no
\* UTF-8 becomes U+FFFD; a str line is printed as it is
Decode(line, type) ==
    IF type = "bytes"
    THEN [k \in 1..Len(line) |-> IF line[k] = "0xFF" THEN "U+FFFD" ELSE line[k]]
    ELSE line

\* a faulty variant of PrintLines: in_headers is never set to False, so the
\* peer line is printed before every blank line
RECURSIVE PrintLinesEveryBlank(_, _, _, _)
PrintLinesEveryBlank(ls, in_headers, peer, type) ==
    IF ls = <<>> THEN <<>>
    ELSE (IF in_headers /\ Head(ls) = <<>>
          THEN <<Printed("peer", <<FormatPeer(peer)>>)>> ELSE <<>>)
            \o <<Printed("content", Decode(Head(ls), type))>>
            \o PrintLinesEveryBlank(Tail(ls), in_headers, peer, type)

\* the loop of _print_message_content over the lines ls, entered with the
\* given value of in_headers
RECURSIVE PrintLines(_, _, _, _)
PrintLines(ls, in_headers, peer, type) ==
    IF ls = <<>> THEN <<>>
    ELSE LET line == Head(ls)
             banner == in_headers /\ line = <<>>
         IN  (IF banner THEN <<Printed("peer", <<FormatPeer(peer)>>)>> ELSE <<>>)
                \o <<Printed("content", Decode(line, type))>>
                \o PrintLines(Tail(ls), in_headers /\ ~banner, peer, type)

\* what _print_message_content(peer, data) prints
PrintMessageContent(peer, content) ==
    PrintLines(SplitLines(content), TRUE, peer, content.type)

\* the rcpt options lines, one for each recipient whose options are not empty
RECURSIVE RcptOptionLines(_)
RcptOptionLines(rcpts) ==
    IF rcpts = <<>> THEN <<>>
    ELSE (IF Head(rcpts).options # <<>>
          THEN <<Printed("rcpt options", <<"rcpt options:">> \o Head(rcpts).options)>>
          ELSE <<>>)
            \o RcptOptionLines(Tail(rcpts))

\* a faulty variant of AddSeparator: the loop over the recipients does not set
\* add_separator
AddSeparatorSenderOnly(env) == env.mail_from.options # <<>>

\* the value of add_separator after the loop over the recipients
AddSeparator(env) ==
    \/ env.mail_from.options # <<>>
    \/ \E k \in 1..Len(env.rcpt_tos) : env.rcpt_tos[k].options # <<>>

\* lines 71 to 85: the opening line, the options lines and the separator
DebuggingPrintOptions ==
    /\ pc = "handle_DATA"
    /\ stream' = stream
            \o <<Printed("begin", <<"---------- MESSAGE FOLLOWS ----------">>)>>
            \o (IF envelope.mail_from.options # <<>>
                THEN <<Printed("mail options",
                            <<"mail options:">> \o envelope.mail_from.options)>>
                ELSE <<>>)
            \o RcptOptionLines(envelope.rcpt_tos)
            \o (IF AddSeparator(envelope) THEN <<Printed("separator", <<>>)>> ELSE <<>>)
    /\ pc' = "content"
    /\ UNCHANGED <<session, envelope, raised, proxyVars, mailboxVars>>

\* lines 86 and 87: the content and the closing line
DebuggingPrintContent ==
    /\ pc = "content"
    /\ stream' = stream
            \o PrintMessageContent(session.peer, envelope.content)
            \o <<Printed("end", <<"------------ END MESSAGE ------------">>)>>
    /\ pc' = "done"
    /\ UNCHANGED <<session, envelope, raised, proxyVars, mailboxVars>>

\* longest content handed to Debugging, in characters
MaxDebugLen == 3

\* a message of a header line, a blank line, a body line and a second blank
\* line
DebugScenarioChars == <<"a", "\r", "\n", "\r", "\n", "a", "\n", "\n">>

\* content as text, and as bytes that may hold a byte that is no UTF-8
DebugContents ==
    {[type |-> "str", chars |-> c] : c \in SeqsUpTo(Chars, MaxDebugLen)}
        \cup {[type |-> "bytes", chars |-> c] :
                c \in SeqsUpTo(Chars \cup {"0xFF"}, MaxDebugLen)}
        \cup {[type |-> t, chars |-> DebugScenarioChars] : t \in {"str", "bytes"}}

MailOptionLists == {<<>>, <<"BODY=8BITMIME">>}
RcptOptionLists == {<<>>, <<"NOTIFY=NEVER">>}

\* the recipient lists, each recipient with or without options
DebugRcptLists ==
    UNION {{[k \in 1..n |-> AddressWithOptions(RcptAddrs[k], o[k])] :
                o \in [1..n -> RcptOptionLists]} : n \in 1..MaxRcpts}

InitDebugging ==
    /\ session \in {[peer |-> p] : p \in Peers}
    /\ envelope \in {[mail_from |-> AddressWithOptions(SenderAddr, m),
                      rcpt_tos |-> r, content |-> c] :
                        m \in MailOptionLists, r \in DebugRcptLists, c \in DebugContents}
    /\ pc = "handle_DATA"
    /\ raised = NoExc
    /\ stream = <<>>
    /\ ProxyUnused
    /\ MailboxUnused

NextDebugging ==
    \/ DebuggingPrintOptions
    \/ DebuggingPrintContent

SpecDebugging == InitDebugging /\ [][NextDebugging]_vars

---------------------------------------------------------------------------
(* Properties of Debugging.handle_DATA *)

\* the positions in the stream of the lines of the given kinds
PositionsOf(kinds) == {k \in 1..Len(stream) : stream[k].kind \in kinds}

\* the sender or at least one recipient has a non-empty options list
SomeOptions ==
    \/ Len(envelope.mail_from.options) > 0
    \/ \E r \in Range(envelope.rcpt_tos) : Len(r.options) > 0

\* C10: Debugging.handle_DATA prints the blank separator line exactly once
\* when the sender or a recipient has options, prints no options line and
\* no separator when none has, and prints every options line and the
\* separator before the first line of the content.
C10_OptionsSeparator ==
    pc \in {"content", "done"} =>
        LET seps == PositionsOf({"separator"})
            opts == PositionsOf({"mail options", "rcpt options"})
            body == PositionsOf({"peer", "content", "end"})
        IN  /\ SomeOptions => Cardinality(seps) = 1
            /\ ~SomeOptions => (seps = {} /\ opts = {})
            /\ \A k \in seps : stream[k].text = <<>>
            /\ \A k \in seps \cup opts : \A b \in body : k < b
            /\ (pc = "done" /\ ~SomeOptions) =>
                    SubSeq(stream, 2, Len(stream)) =
                        PrintMessageContent(session.peer, envelope.content)
                            \o <<Printed("end", <<"------------ END MESSAGE ------------">>)>>

\* only a recipient has options, and the content has a blank line of its own
C10_Witness ==
    /\ pc = "done"
    /\ envelope.mail_from.options = <<>>
    /\ \E r \in Range(envelope.rcpt_tos) : r.options # <<>>
    /\ \E r \in Range(envelope.rcpt_tos) : r.options = <<>>
    /\ PositionsOf({"peer"}) # {}
    /\ Cardinality(PositionsOf({"separator"})) = 1
    /\ Cardinality({k \in 1..Len(stream) : stream[k].text = <<>>}) >= 2

---------------------------------------------------------------------------
(* Further properties of the handlers *)

\* the content of an envelope is neither bytes nor text
NeitherBytesNorText(env) ==
    env.content.type # "bytes" /\ env.content.type # "str"

\* C11: an invocation whose envelope content is neither bytes nor text fails
\* in prepare_message with the AssertionError of the assert statement: it is
\* never given a message, never reaches handle_message, never returns, and
\* no entry of the store comes from such an invocation
C11_NonTextContentFails ==
    /\ \A t \in DOMAIN tasks :
        NeitherBytesNorText(tasks[t].envelope) =>
            /\ tasks[t].pc \in {"handle_DATA", "raised"}
            /\ tasks[t].message = NoMessage
            /\ tasks[t].pc = "raised" => tasks[t].raised = AssertionError
    /\ \A k \in DOMAIN appended : ~NeitherBytesNorText(appended[k].envelope)

\* an invocation with such content has failed, next to a store that holds
\* the message of another invocation
C11_Witness ==
    /\ \E t \in DOMAIN tasks :
        /\ NeitherBytesNorText(tasks[t].envelope)
        /\ tasks[t].pc = "raised"
        /\ tasks[t].raised = AssertionError
    /\ Cardinality(DOMAIN mailbox) = 1
    /\ completed = 1

\* sendmail completed and the upstream server refused no recipient
AllAccepted ==
    /\ outcomes.sendmail.cls = "returned"
    /\ outcomes.sendmail.recipients = EmptyMap

\* C12: whatever connect, sendmail and quit did, the refusal map that
\* handle_DATA logs is empty exactly when sendmail completed with no refused
\* recipient
C12_EmptyMapIffAllAccepted ==
    pc = "done" =>
        /\ AllAccepted => logged[1] = EmptyMap
        /\ logged[1] = EmptyMap => AllAccepted

\* the calls of one operation made on the upstream connection so far
CallsOf(op) == SelectSeq(upstream, LAMBDA c : c.op = op)

\* the upstream connection of this invocation was opened
Opened == outcomes.connect = Ok

\* _deliver is past its inner try statement: it handles an exception, has
\* returned or has raised
DeliverOver ==
    \/ pc \in {"return", "done"}
    \/ pc \in {"except", "raised"} /\ outcomes.connect # NotCalled

\* C13: once _deliver is past its try statement, a connection that was opened
\* has been quit exactly once, as the last call made on it, whether sendmail
\* returned an empty map, returned refusals or raised; quit is never called
\* twice, and no connection is open when _deliver is over
C13_QuitOnEveryExit ==
    /\ Len(CallsOf("quit")) <= 1
    /\ DeliverOver /\ Opened =>
            /\ Len(CallsOf("quit")) = 1
            /\ Len(CallsOf("sendmail")) = 1
            /\ upstream[Len(upstream)].op = "quit"
    /\ DeliverOver => conn # "open"

\* sendmail raised on an opened connection, and handle_DATA returned
C13_Witness ==
    /\ pc = "done"
    /\ Opened
    /\ IsException(outcomes.sendmail)
    /\ outcomes.quit = Ok
    /\ conn = "closed"

\* what _print_message_content printed: the peer lines and the content lines
ContentOutput == SelectSeq(stream, LAMBDA l : l.kind \in {"peer", "content"})

\* the positions of the blank lines among the lines of the content
BlankLines ==
    {k \in 1..Len(SplitLines(envelope.content)) : SplitLines(envelope.content)[k] = <<>>}

\* C14: once handle_DATA is over, the content lines printed are the lines of
\* the content (bytes decoded), each once and in their order; no peer line
\* was printed when the content has no blank line, and otherwise exactly one,
\* directly before the first blank line
C14_PeerLineOnceBeforeFirstBlank ==
    pc = "done" =>
        LET ls == SplitLines(envelope.content)
            peerLine == Printed("peer", <<FormatPeer(session.peer)>>)
        IN  /\ SelectSeq(ContentOutput, LAMBDA l : l.kind = "content")
                    = [k \in 1..Len(ls) |->
                            Printed("content", Decode(ls[k], envelope.content.type))]
            /\ BlankLines = {} => Len(ContentOutput) = Len(ls)
            /\ BlankLines # {} =>
                    LET first == CHOOSE k \in BlankLines : \A j \in BlankLines : k <= j
                    IN  /\ Len(ContentOutput) = Len(ls) + 1
                        /\ ContentOutput[first] = peerLine

\* the content has a header line, then a blank line, and a later blank line
C14_Witness ==
    /\ pc = "done"
    /\ envelope.content.chars = DebugScenarioChars
    /\ BlankLines = {2, 4}
    /\ ContentOutput[2].kind = "peer"
    /\ Len(ContentOutput) = 5

\* the message m carries the provenance of the invocation inv, behind the
\* headers of the content of inv, and has the body of that content
CarriesProvenanceOf(m, inv) ==
    LET parsed == ParseMessage(inv.envelope.content)
        n == Len(parsed.headers)
        r == inv.envelope.rcpt_tos
    IN  /\ Len(m.headers) = n + 3
        /\ SubSeq(m.headers, 1, n) = parsed.headers
        /\ m.headers[n + 1] = [name |-> "X-Peer", value |-> StrPeer(inv.session.peer)]
        /\ m.headers[n + 2] =
                [name |-> "X-MailFrom", value |-> inv.envelope.mail_from.address]
        /\ m.headers[n + 3] =
                [name |-> "X-RcptTo",
                 value |-> JoinCommaSpace([k \in 1..Len(r) |-> r[k].address])]
        /\ m.payload = parsed.payload

\* C15: as long as reset was not called, however the invocations of the
\* tasks that share the Mailbox interleave, the store holds exactly one
\* message for each invocation that returned, and each stored message
\* carries the provenance of the session and envelope of the invocation that
\* added it
C15_OneMessagePerInvocation ==
    sinceReset < 0 =>
        /\ Cardinality(DOMAIN mailbox) = completed
        /\ DOMAIN mailbox = DOMAIN appended
        /\ \A k \in DOMAIN mailbox : CarriesProvenanceOf(mailbox[k], appended[k])

\* two tasks with different peers and contents have each stored a message,
\* and a third invocation is on its way
C15_Witness ==
    /\ sinceReset < 0
    /\ completed = 2
    /\ \E j, k \in DOMAIN mailbox :
        /\ appended[j].task # appended[k].task
        /\ appended[j].session # appended[k].session
        /\ appended[j].envelope # appended[k].envelope
        /\ mailbox[j] # mailbox[k]
    /\ \E t \in DOMAIN tasks : tasks[t].pc = "handle_message"

\* C16: in every transaction a handler serves, the Proxy has inserted the
\* X-Peer line before it makes its first call on the upstream connection,
\* and the data of its sendmail call is the join of the lines with that line;
\* the refusal map it logs is the one its own _deliver returned, over
\* recipients of its own envelope; a Message invocation holds no message
\* before prepare_message returned, passes on the message made from its own
\* session and envelope, and that message is what the store holds
C16_RewriteBeforeDelivery ==
    /\ upstream # <<>> =>
            /\ upstream[1].op = "connect"
            /\ \E term \in Terminators :
                    lines = WithXPeerBeforeBlank(OriginalLines, term)
            /\ data = Join(lines)
    /\ \A k \in 1..Len(upstream) :
            upstream[k].op = "sendmail" =>
                /\ k > 1
                /\ upstream[k].data = Join(lines)
                /\ upstream[k].rcpt_tos = RcptAddresses(envelope)
    /\ pc = "done" =>
            /\ logged = <<refused>>
            /\ DOMAIN refused \subseteq Range(RcptAddresses(envelope))
    /\ \A t \in DOMAIN tasks :
            /\ tasks[t].pc = "handle_DATA" => tasks[t].message = NoMessage
            /\ tasks[t].pc \in {"handle_message", "done"} =>
                    CarriesProvenanceOf(tasks[t].message, tasks[t])
    /\ \A k \in DOMAIN mailbox : CarriesProvenanceOf(mailbox[k], appended[k])

\* the second transaction of a Proxy: the scenario content was sent with its
\* X-Peer line, the server refused one of the two recipients, and that map
\* was logged
C16_Witness ==
    /\ begun = 2
    /\ pc = "done"
    /\ session.peer[1] = "127.0.0.1"
    /\ \E k \in 1..Len(upstream) :
            upstream[k].op = "sendmail" /\ upstream[k].data = ScenarioData
    /\ outcomes.sendmail.cls = "returned"
    /\ Cardinality(DOMAIN outcomes.sendmail.recipients) = 1
    /\ logged = <<outcomes.sendmail.recipients>>

\* C17: in one invocation the Proxy calls connect at most once and sendmail
\* at most once, whatever they and quit report, and a Mailbox invocation
\* calls the append of the store at most once: after a successful append it
\* returns, and after a failed one it ends with the very exception of the
\* append
C17_NoRetry ==
    /\ Len(CallsOf("connect")) <= 1
    /\ Len(CallsOf("sendmail")) <= 1
    /\ \A t \in DOMAIN tasks :
            /\ Len(tasks[t].adds) <= 1
            /\ tasks[t].adds # <<>> =>
                    IF tasks[t].adds[1] = Ok
                    THEN tasks[t].pc = "done" /\ tasks[t].raised = NoExc
                    ELSE tasks[t].pc = "raised" /\ tasks[t].raised = tasks[t].adds[1]

\* the append of a task failed, next to a store that holds a message
C17_Witness ==
    /\ \E t \in DOMAIN tasks :
        /\ tasks[t].adds = <<OSErrorExc>>
        /\ tasks[t].pc = "raised"
        /\ tasks[t].raised = OSErrorExc
    /\ Cardinality(DOMAIN mailbox) = 1
    /\ completed = 1

\* the names of the headers of a message, in order
HeaderNames(m) == [k \in 1..Len(m.headers) |-> m.headers[k].name]

\* prepare_message kept the headers parsed from the content of task t, in
\* their places, and put exactly X-Peer, X-MailFrom and X-RcptTo behind them
ThreeHeadersAppended(t) ==
    LET m == tasks[t].message
        parsed == ParseMessage(tasks[t].envelope.content)
        n == Len(parsed.headers)
    IN  /\ Len(m.headers) = n + 3
        /\ SubSeq(m.headers, 1, n) = parsed.headers
        /\ SubSeq(HeaderNames(m), n + 1, n + 3) = <<"X-Peer", "X-MailFrom", "X-RcptTo">>

\* C18: the message prepare_message returns has every header parsed from
\* the content, unchanged and in place, followed by exactly three more
\* headers named X-Peer, X-MailFrom and X-RcptTo in this order, also when the
\* content has headers of these names; and no step changes the envelope of
\* the invocation
C18_ThreeHeadersAppended ==
    /\ [](\A t \in DOMAIN tasks : Prepared(t) => ThreeHeadersAppended(t))
    /\ [][\A t \in DOMAIN tasks :
            tasks[t].pc \in {"handle_DATA", "handle_message"}
                => tasks'[t].envelope = tasks[t].envelope]_vars

\* the content has its own X-Peer header, which stays first, and a Subject
\* header
C18_Witness ==
    /\ Prepared("t1")
    /\ HeaderNames(ParseMessage(tasks["t1"].envelope.content)) = <<"X-Peer", "Subject">>
    /\ HeaderNames(tasks["t1"].message)
            = <<"X-Peer", "Subject", "X-Peer", "X-MailFrom", "X-RcptTo">>
    /\ tasks["t1"].message.headers[1].value = "forged"
    /\ tasks["t1"].message.headers[3].value = StrPeer(tasks["t1"].session.peer)
====
